---- MODULE Spec2Model ----
(***************************************************************************)
(* Model of the UnityDanceInfo catalogue tools.                            *)
(*                                                                         *)
(*   Tools/dance_manager.py      DanceManagerBackend + DanceManagerApp     *)
(*   Tools/dance_gui_manager.py  the older hash-based manager              *)
(*   Tools/sort_dances.py        the sorter of dances.json                 *)
(*   Tools/generate_json.py      the generator of catalogue templates      *)
(*                                                                         *)
(* A catalogue maps an 8-hex-digit content fingerprint to an entry, a JSON *)
(* object whose keys of interest are name, author, credits, comment and    *)
(* updated.  Every key of an entry is optional in the code (it is read     *)
(* with dict.get), so an entry is modelled as a record of options: <<>>    *)
(* for an absent key and <<v>> for a key holding v.                        *)
(***************************************************************************)
EXTENDS Integers, Sequences, FiniteSets, TLC

VARIABLES
    fs,             \* the Dances directory: [exists, files: path -> content]
    today,          \* the calendar day datetime.now() falls in
    db_file,        \* DanceStates/DanceInfo/dances.json on disk
    db_data,        \* DanceManagerBackend.db_data   {hash: metadata}
    inventory,      \* DanceManagerBackend.inventory {hash: path}
    dialog,         \* the CloudSyncDialog of dance_manager.py, when open
    app_inventory,  \* DanceManagerApp.inventory of dance_gui_manager.py
    net,            \* the cloud fetch under way: mirror, attempt, requests made
    bg,             \* the scan threads under way and the callbacks they queued
    last            \* what the last operation was, saw and returned

vars == <<fs, today, db_file, db_data, inventory, dialog,
          app_inventory, net, bg, last>>

-----------------------------------------------------------------------------
(* Bounds of the model.                                                    *)

MaxDay == 2

\* scan threads alive at a time
MaxWorkers == 2

-----------------------------------------------------------------------------
(* Python values.                                                          *)

None == <<>>

Some(v) == <<v>>

\* dict.get(key): the option itself; dict.get(key, default)
Get(o, default) == IF o = None THEN default ELSE o[1]

\* str(x) of an optional string: str(None) is the four letters "None"
PyStr(o) == IF o = None THEN "None" ELSE o[1]

\* truthiness of an optional string: None and "" are falsy
Truthy(o) == o # None /\ o[1] # ""

EmptyDict == [x \in {} |-> None]

\* d[k] = v on a dict
Put(d, k, v) == [x \in (DOMAIN d) \cup {k} |-> IF x = k THEN v ELSE d[x]]

Fields == {"name", "author", "credits", "comment", "updated"}

Entry(n, a, cr, co, u) ==
    [name |-> n, author |-> a, credits |-> cr, comment |-> co, updated |-> u]

-----------------------------------------------------------------------------
(* The file tree under Dances.  A path is the sequence of its parts        *)
(* relative to the Dances directory; the last part is the file name.       *)

NoFile == "-"

Contents == {"c1", "c2"}

Paths == { <<"a.unity3d">>, <<"tanito", "wdsa", "b.unity3d">> }

FileName(p) == p[Len(p)]

\* Path.stem: the file name without its last suffix
Stem(p) ==
    CASE FileName(p) = "a.unity3d" -> "a"
      [] FileName(p) = "b.unity3d" -> "b"

\* Path.parent.name; the parent of a top-level file is Dances itself
ParentName(p) == IF Len(p) = 1 THEN "Dances" ELSE p[Len(p) - 1]

NoFiles == [p \in Paths |-> NoFile]

Present(tree) == {p \in Paths : tree.files[p] # NoFile}

\* hashlib.md5(bytes).hexdigest()[:8]: a function of the bytes alone.  The
\* contents of the model have pairwise different digests.
Md5Hex8(c) ==
    CASE c = "c1" -> "h1"
      [] c = "c2" -> "h2"

Hashes == {"h1", "h2", "h3"}

\* DanceManagerBackend._compute_hash: None when opening or reading raises.
\* failed is the set of paths whose read fails during this scan.
compute_hash(p, failed) ==
    IF p \in failed \/ fs.files[p] = NoFile
    THEN None
    ELSE Some(Md5Hex8(fs.files[p]))

\* DanceManagerBackend._guess_author
guess_author(p) == IF Len(p) = 1 THEN "Unknown" ELSE ParentName(p)

-----------------------------------------------------------------------------
(* Strings are compared as Python compares them, by code point.  StrOrder  *)
(* lists the strings of the model in that order.                           *)

StrOrder ==
    << "", "Motion: m", "None", "Unknown", "X", "a", "a.unity3d", "b",
       "b.unity3d", "nice", "tanito", "wdsa" >>

StrRank(s) == CHOOSE i \in 1..Len(StrOrder) : StrOrder[i] = s

HashLess(h1, h2) ==
    \/ h1 = "h1" /\ h2 \in {"h2", "h3"}
    \/ h1 = "h2" /\ h2 = "h3"

\* (a1, n1, h1) < (a2, n2, h2) on tuples of strings
KeyLess(k1, k2) ==
    \/ StrRank(k1[1]) < StrRank(k2[1])
    \/ k1[1] = k2[1] /\ StrRank(k1[2]) < StrRank(k2[2])
    \/ k1[1] = k2[1] /\ k1[2] = k2[2] /\ HashLess(k1[3], k2[3])

\* the sequences that enumerate the set S once each
Orderings(S) ==
    {s \in [1..Cardinality(S) -> S] : \A i, j \in DOMAIN s : s[i] = s[j] => i = j}

-----------------------------------------------------------------------------
(* A JSON document holding a catalogue: the keys in file order and the     *)
(* entries.  A catalogue file is missing, unparsable, or such a document.  *)

Doc(order, data) == [state |-> "ok", order |-> order, data |-> data]

MissingFile == [state |-> "missing", order |-> <<>>, data |-> EmptyDict]

CorruptFile == [state |-> "corrupt", order |-> <<>>, data |-> EmptyDict]

-----------------------------------------------------------------------------
(* DanceManagerBackend: load_db and save_db.                               *)

\* load_db without the assignment in its except branch: a file that does
\* not parse leaves self.db_data as it was
LoadDbKeepsOnError(file) ==
    IF file.state = "ok" THEN file.data
    ELSE IF file.state = "corrupt" THEN db_data
    ELSE EmptyDict

\* load_db: the parsed file, or {} when it is missing or does not parse
load_db(file) == IF file.state = "ok" THEN file.data ELSE EmptyDict

\* save_db, lines 75-77: del entry['comment'] where it is present and falsy
DropEmptyComment(e) ==
    IF e.comment # None /\ ~Truthy(e.comment) THEN [e EXCEPT !.comment = None] ELSE e

NormalizeComments(db) == [h \in DOMAIN db |-> DropEmptyComment(db[h])]

\* save_db, line 82: the sort key of an item; item[1]['author'] and
\* item[1]['name'] raise KeyError when the key is absent
HasSortKey(e) == e.author # None /\ e.name # None

SortKey(db, h) == <<db[h].author[1], db[h].name[1], h>>

\* save_db, lines 80-83: the keys in ascending order of the sort key
SortedKeys(db) ==
    CHOOSE s \in Orderings(DOMAIN db) :
        \A i, j \in DOMAIN s : i < j => KeyLess(SortKey(db, s[i]), SortKey(db, s[j]))

WriteOutcomes == {"ok", "open_fails", "dump_fails"}

\* the outcomes on a disk that takes every write
ReliableWrites == {"ok"}

\* the outcomes on a disk where a write goes through or breaks off
BrokenWrites == {"ok", "dump_fails"}

\* save_db without its clean-up loop: the comments are written as they are
SaveDbUnnormalized(db, file, io) ==
    IF \E h \in DOMAIN db : ~HasSortKey(db[h])
    THEN [db |-> db, file |-> file, ok |-> FALSE]
    ELSE CASE io = "ok" ->
                [db |-> db, file |-> Doc(SortedKeys(db), db), ok |-> TRUE]
           [] io = "open_fails" ->
                [db |-> db, file |-> file, ok |-> FALSE]
           [] io = "dump_fails" ->
                [db |-> db, file |-> CorruptFile, ok |-> FALSE]

\* save_db as a whole: the catalogue it leaves in memory, the file it leaves
\* on disk and the value it returns.  io is what the file system does with
\* open(..., "w") and json.dump: open() truncates the file, so a dump that
\* raises after it leaves an incomplete document behind.
save_db(db, file, io) ==
    LET norm == NormalizeComments(db) IN
    IF \E h \in DOMAIN norm : ~HasSortKey(norm[h])
    THEN [db |-> norm, file |-> file, ok |-> FALSE]
    ELSE CASE io = "ok" ->
                [db |-> norm, file |-> Doc(SortedKeys(norm), norm), ok |-> TRUE]
           [] io = "open_fails" ->
                [db |-> norm, file |-> file, ok |-> FALSE]
           [] io = "dump_fails" ->
                [db |-> norm, file |-> CorruptFile, ok |-> FALSE]

-----------------------------------------------------------------------------
(* DanceManagerBackend.scan_local_files.                                   *)

\* lines 118-124: the entry created for a fingerprint the catalogue lacks
NewEntry(p) ==
    Entry(Some(Stem(p)), Some(guess_author(p)), Some(<<>>), None, Some(today))

\* lines 127-128: an existing entry only gets a missing 'updated' filled in
TouchExisting(e) == IF e.updated = None THEN [e EXCEPT !.updated = Some(today)] ELSE e

\* the loop body with new_count += 1 moved out of the branch
ScanFileCountsEveryFile(acc, p, failed) ==
    LET fhash == compute_hash(p, failed) IN
    IF fhash = None
    THEN acc
    ELSE LET h == fhash[1] IN
         IF h \notin DOMAIN acc.db
         THEN [db  |-> Put(acc.db, h, NewEntry(p)),
               inv |-> Put(acc.inv, h, p),
               cnt |-> acc.cnt + 1]
         ELSE [db  |-> Put(acc.db, h, TouchExisting(acc.db[h])),
               inv |-> Put(acc.inv, h, p),
               cnt |-> acc.cnt + 1]

\* lines 109-128: the loop body for one path, once fhash is computed
ScanHashed(acc, p, fhash) ==
    IF fhash = None
    THEN acc
    ELSE LET h == fhash[1] IN
         IF h \notin DOMAIN acc.db
         THEN [db  |-> Put(acc.db, h, NewEntry(p)),
               inv |-> Put(acc.inv, h, p),
               cnt |-> acc.cnt + 1]
         ELSE [db  |-> Put(acc.db, h, TouchExisting(acc.db[h])),
               inv |-> Put(acc.inv, h, p),
               cnt |-> acc.cnt]

\* lines 105-128: the loop body for one path
ScanFile(acc, p, failed) == ScanHashed(acc, p, compute_hash(p, failed))

RECURSIVE ScanLoop(_, _, _)
ScanLoop(acc, found, failed) ==
    IF found = <<>>
    THEN acc
    ELSE ScanLoop(ScanFile(acc, Head(found), failed), Tail(found), failed)

\* the whole function: found is list(rglob("*.unity3d")).  When Dances does
\* not exist it returns ({}, 0) at line 99 and assigns nothing.
scan_local_files(db, inv, found, failed) ==
    IF ~fs.exists
    THEN [db |-> db, inv |-> inv, ret_inv |-> EmptyDict, cnt |-> 0]
    ELSE LET r == ScanLoop([db |-> db, inv |-> EmptyDict, cnt |-> 0], found, failed)
         IN  [db |-> r.db, inv |-> r.inv, ret_inv |-> r.inv, cnt |-> r.cnt]

-----------------------------------------------------------------------------
(* DanceManagerBackend: the cloud diff and merge.                          *)

\* the comparison with credits compared by identity ('is not'): two lists
\* parsed from two documents are never the same object
ItemsDifferByIdentity(c_item, l_item) ==
    \/ PyStr(c_item.name) # PyStr(l_item.name)
    \/ PyStr(c_item.author) # PyStr(l_item.author)
    \/ c_item.credits # None \/ l_item.credits # None
    \/ PyStr(c_item.comment) # PyStr(l_item.comment)

\* calculate_cloud_diffs, lines 202-205: the comparison of the two items
ItemsDiffer(c_item, l_item) ==
    \/ PyStr(c_item.name) # PyStr(l_item.name)
    \/ PyStr(c_item.author) # PyStr(l_item.author)
    \/ c_item.credits # l_item.credits
    \/ PyStr(c_item.comment) # PyStr(l_item.comment)

\* lines 197-209: what one cloud key appends to diffs
DiffOf(h, c_item, db) ==
    IF h \in DOMAIN db
    THEN IF ItemsDiffer(c_item, db[h]) THEN << <<h, "UPDATE">> >> ELSE <<>>
    ELSE << <<h, "NEW DB ENTRY">> >>

RECURSIVE DiffLoop(_, _, _)
DiffLoop(keys, cloud, db) ==
    IF keys = <<>>
    THEN <<>>
    ELSE DiffOf(Head(keys), cloud[Head(keys)], db) \o DiffLoop(Tail(keys), cloud, db)

\* calculate_cloud_diffs(cloud_data) against db: cloud_data.items() runs in
\* the order of the keys in the fetched document
calculate_cloud_diffs(doc, db) == DiffLoop(doc.order, doc.data, db)

\* the merge done with dict.update on the local entry: a key the cloud item
\* lacks keeps its local value
MergeByUpdate(db, h, cloud_item) ==
    LET l_item == IF h \in DOMAIN db THEN db[h] ELSE Entry(None, None, None, None, None)
        merged == [f \in Fields |-> IF cloud_item[f] # None THEN cloud_item[f] ELSE l_item[f]]
    IN  Put(db, h, [merged EXCEPT !.updated = Some(today)])

\* merge_cloud_item: db_data[h] = cloud_item; db_data[h]['updated'] = today
merge_cloud_item(db, h, cloud_item) ==
    Put(db, h, [cloud_item EXCEPT !.updated = Some(today)])

-----------------------------------------------------------------------------
(* The catalogue files and remote catalogues the model starts from.        *)

\* an entry a user has annotated
Annotated == Entry(Some("a"), Some("X"), Some(<<"Motion: m">>), Some("nice"), Some(1))

\* an entry as the older tool writes it: the file name with its suffix, an
\* empty comment; here without 'updated'
OldStyle == Entry(Some("b.unity3d"), Some("Unknown"), Some(<<>>), Some(""), None)

\* a hand-written entry that lacks most keys
Sparse == Entry(Some("b"), None, None, None, None)

\* the same asset as Annotated, as the remote catalogue has it
RemoteEdit == Entry(Some("a"), Some("tanito"), Some(<<"Motion: m">>), Some(""), Some(1))

\* an asset only the remote catalogue knows
RemoteOnly == Entry(Some("b"), Some("wdsa"), Some(<<>>), None, None)

InitFiles ==
    { MissingFile,
      CorruptFile,
      Doc(<<"h1">>, [h \in {"h1"} |-> Annotated]),
      Doc(<<"h1", "h2">>, [h \in {"h1", "h2"} |-> IF h = "h1" THEN Annotated ELSE OldStyle]),
      Doc(<<"h2">>, [h \in {"h2"} |-> Sparse]) }

\* the same asset again, as a catalogue without comments has it
RemotePlain == Entry(Some("a"), Some("tanito"), Some(<<>>), None, None)

CloudDocs ==
    { Doc(<<>>, EmptyDict),
      Doc(<<"h1">>, [h \in {"h1"} |-> Annotated]),
      Doc(<<"h1">>, [h \in {"h1"} |-> RemotePlain]),
      Doc(<<"h3", "h1">>, [h \in {"h1", "h3"} |-> IF h = "h1" THEN RemoteEdit ELSE RemoteOnly]),
      Doc(<<"h3">>, [h \in {"h3"} |-> Sparse]) }

ClosedDialog == [open |-> FALSE, cloud_db |-> EmptyDict, diffs |-> <<>>, merged |-> {}]

\* no scan thread, no callback waiting, the Refresh Scan button enabled
NoWorkers == [workers |-> EmptyDict, queue |-> <<>>, btn_refresh |-> TRUE]

-----------------------------------------------------------------------------
(* Fetching the cloud catalogue.  A request to a mirror raises (no route,  *)
(* timeout, HTTP error), or answers with a status other than 200, or with  *)
(* status 200 and a body that is not JSON, or with status 200 and a        *)
(* catalogue.                                                              *)

\* CLOUD_URLS of dance_manager.py
CLOUD_URLS == <<"unitydanceinfo.pages.dev", "maoxig.github.io">>

\* [CLOUD_PRIMARY, CLOUD_FALLBACK] of dance_gui_manager.py
GuiCloudUrls == <<"maoxig.github.io", "unitydanceinfo.pages.dev">>

\* for attempt in range(3)
Attempts == 3

\* dance_gui_manager.py asks each mirror once
GuiAttempts == 1

Tools == {"dance_manager", "dance_gui_manager"}

Urls(tool) == IF tool = "dance_manager" THEN CLOUD_URLS ELSE GuiCloudUrls

Budget(tool) == IF tool = "dance_manager" THEN Attempts ELSE GuiAttempts

FailedKinds == {"raises", "not_200", "not_json"}

Responses ==
    {[kind |-> k, body |-> None] : k \in FailedKinds}
        \cup {[kind |-> "ok", body |-> Some(d)] : d \in CloudDocs}

NoFetch ==
    [tool |-> "none", pc |-> "idle", url |-> 1, attempt |-> 0, log |-> <<>>,
     result |-> None]

\* the loops go on: the next attempt on this mirror, else the next mirror,
\* else return None
NextTry(f) ==
    IF f.attempt + 1 < Budget(f.tool) THEN [f EXCEPT !.attempt = @ + 1]
    ELSE IF f.url < Len(Urls(f.tool)) THEN [f EXCEPT !.url = @ + 1, !.attempt = 0]
    ELSE [f EXCEPT !.pc = "done"]

Requested(f, resp) ==
    [f EXCEPT !.log = Append(@, [url |-> Urls(f.tool)[f.url], resp |-> resp])]

\* the fetch with a break in place of the return: the payload is kept and
\* the next mirror is asked all the same
FetchStepBreaks(f, resp) ==
    LET g == Requested(f, resp)
    IN  IF resp.kind = "ok"
        THEN IF g.url < Len(Urls(g.tool))
             THEN [g EXCEPT !.url = @ + 1, !.attempt = 0, !.result = resp.body]
             ELSE [g EXCEPT !.pc = "done", !.result = resp.body]
        ELSE NextTry(g)

\* one turn of the loop of fetch_cloud_db / fetch_cloud_database: urlopen,
\* and on status 200 return json.loads of the body; an exception (of urlopen
\* or of json.loads) is printed and the loop goes on, as it does on any
\* other status
FetchStep(f, resp) ==
    LET g == Requested(f, resp)
    IN  IF resp.kind = "ok"
        THEN [g EXCEPT !.pc = "done", !.result = resp.body]
        ELSE NextTry(g)

-----------------------------------------------------------------------------
(* The file tree changes under the tools: files are added, overwritten in   *)
(* place, renamed and removed, and days pass.                              *)

Started == last.op # "init"

AppVars == <<db_file, db_data, inventory, dialog, app_inventory>>

AddFile(p, c) ==
    /\ Started /\ fs.exists /\ fs.files[p] = NoFile
    /\ fs' = [fs EXCEPT !.files[p] = c]
    /\ last' = [op |-> "fs"]
    /\ UNCHANGED <<today, AppVars, net, bg>>

OverwriteFile(p, c) ==
    /\ Started /\ fs.files[p] # NoFile /\ fs.files[p] # c
    /\ fs' = [fs EXCEPT !.files[p] = c]
    /\ last' = [op |-> "overwrite", path |-> p, old |-> fs.files[p]]
    /\ UNCHANGED <<today, AppVars, net, bg>>

RenameFile(p, q) ==
    /\ Started /\ fs.files[p] # NoFile /\ fs.files[q] = NoFile
    /\ fs' = [fs EXCEPT !.files[p] = NoFile, !.files[q] = fs.files[p]]
    /\ last' = [op |-> "fs"]
    /\ UNCHANGED <<today, AppVars, net, bg>>

RemoveFile(p) ==
    /\ Started /\ fs.files[p] # NoFile
    /\ fs' = [fs EXCEPT !.files[p] = NoFile]
    /\ last' = [op |-> "fs"]
    /\ UNCHANGED <<today, AppVars, net, bg>>

RemoveDances ==
    /\ Started /\ fs.exists
    /\ fs' = [exists |-> FALSE, files |-> NoFiles]
    /\ last' = [op |-> "fs"]
    /\ UNCHANGED <<today, AppVars, net, bg>>

MakeDances ==
    /\ Started /\ ~fs.exists
    /\ fs' = [exists |-> TRUE, files |-> NoFiles]
    /\ last' = [op |-> "fs"]
    /\ UNCHANGED <<today, AppVars, net, bg>>

AdvanceDay ==
    /\ Started /\ today < MaxDay
    /\ today' = today + 1
    /\ UNCHANGED <<fs, AppVars, net, bg, last>>

FsChange ==
    \/ \E p \in Paths, c \in Contents : AddFile(p, c) \/ OverwriteFile(p, c)
    \/ \E p, q \in Paths : RenameFile(p, q)
    \/ \E p \in Paths : RemoveFile(p)
    \/ RemoveDances
    \/ MakeDances

\* the operation right before this one: an overwrite with its path and the
\* bytes it replaced, or just its kind
Prev ==
    CASE last.op = "overwrite" -> last
      [] last.op = "scan" /\ last.tool = "dance_gui_manager" ->
            [op |-> "scan", found |-> last.found, all_read |-> last.all_read]
      [] last.op = "scan" /\ last.tool = "dance_manager" ->
            [op |-> "scan", all_read |-> last.all_read]
      [] OTHER -> [op |-> last.op]

-----------------------------------------------------------------------------
(* dance_manager.py, DanceManagerApp: the handlers, each with the backend   *)
(* calls it makes.  A scan is taken here with its completion callback.     *)

\* what a handler tells the user when it ends: a message box (showinfo,
\* showerror), a line in the status bar (log), or nothing
Notice(kind, text) == [kind |-> kind, text |-> text]

NoNotice == Notice("none", "")

\* _on_scan_done, lines 588-592: the status line
ScanNotice(new_count) ==
    IF new_count > 0
    THEN Notice("status", "Scan complete. Added new entries to DB.")
    ELSE Notice("status", "Scan complete.")

\* refresh_scan's worker followed by _on_scan_done, on the catalogue db:
\* found is the order rglob lists the files in, failed the files whose read
\* raises, io what the file system does with the write of save_db
ScanAndSave(db, loaded, outcomes) ==
    \E found \in Orderings(Present(fs)) :
    \E failed \in SUBSET Present(fs) :
        LET r == scan_local_files(db, inventory, found, failed) IN
        \E io \in IF r.cnt > 0 THEN outcomes ELSE {"ok"} :
            LET s == IF r.cnt > 0
                     THEN save_db(r.db, db_file, io)
                     ELSE [db |-> r.db, file |-> db_file, ok |-> TRUE]
            IN  /\ db_data' = s.db
                /\ inventory' = r.inv
                /\ db_file' = s.file
                /\ last' = [op |-> "scan", tool |-> "dance_manager",
                            pre |-> db, loaded |-> loaded, all_read |-> failed = {},
                            failed |-> failed,
                            ret_inv |-> r.ret_inv, cnt |-> r.cnt,
                            saved |-> r.cnt > 0, save_ok |-> s.ok,
                            notice |-> ScanNotice(r.cnt), prev |-> Prev]
                /\ UNCHANGED <<fs, today, dialog, app_inventory, net, bg>>

\* run_startup_tasks: load_db, then refresh_scan
RunStartupTasks(outcomes) ==
    /\ ~Started
    /\ ScanAndSave(load_db(db_file), TRUE, outcomes)

\* on_path_change with the path it already has: set_root_path (ensure_dirs,
\* load_db), then refresh_scan
OnPathChange(outcomes) ==
    /\ Started /\ ~dialog.open
    /\ ScanAndSave(load_db(db_file), TRUE, outcomes)

\* the Refresh Scan button: refresh_scan
RefreshScan(outcomes) ==
    /\ Started /\ ~dialog.open
    /\ ScanAndSave(db_data, FALSE, outcomes)

\* _on_cloud_result: fetched is what fetch_cloud_db returned, None or the
\* parsed document; review is the user's answer to "Review them?"
OnCloudResult(fetched, silent, review) ==
    LET doc == fetched[1]
        falsy == fetched = None \/ doc.order = <<>>
        diffs == IF falsy THEN <<>> ELSE calculate_cloud_diffs(doc, db_data)
        shown == IF falsy THEN "error"
                 ELSE IF Len(diffs) > 0 THEN "updates" ELSE "up_to_date"
    IN  /\ Started /\ ~dialog.open
        /\ dialog' = IF ~falsy /\ Len(diffs) > 0 /\ ~silent /\ review
                      THEN [open |-> TRUE, cloud_db |-> doc.data, diffs |-> diffs,
                            merged |-> {}]
                      ELSE dialog
        /\ last' = [op |-> "cloud", fetched |-> fetched, silent |-> silent,
                    shown |-> shown, count |-> Len(diffs)]
        /\ UNCHANGED <<fs, today, db_file, db_data, inventory, app_inventory, net, bg>>

\* del self.diffs[idx]
DelAt(seq, idx) == [i \in 1..(Len(seq) - 1) |-> IF i < idx THEN seq[i] ELSE seq[i + 1]]

\* apply_cloud_merge: merge_cloud_item, then save_db.  The merged item is the
\* dialog's own cloud_db[h] object, so what save_db does to the entry it does
\* to the dialog's copy.
apply_cloud_merge(db, file, h, cloud_item, io) ==
    save_db(merge_cloud_item(db, h, cloud_item), file, io)

Alias(cloud_db, merged, db) ==
    [h \in DOMAIN cloud_db |-> IF h \in merged THEN db[h] ELSE cloud_db[h]]

\* CloudSyncDialog.apply_single on the idx-th difference
ApplySingle(idx, io) ==
    /\ dialog.open /\ idx \in 1..Len(dialog.diffs)
    /\ LET h == dialog.diffs[idx][1]
           r == apply_cloud_merge(db_data, db_file, h, dialog.cloud_db[h], io)
           rest == DelAt(dialog.diffs, idx)
           merged == dialog.merged \cup {h}
       IN  /\ db_data' = r.db
           /\ db_file' = r.file
           /\ dialog' = IF rest = <<>>
                         THEN ClosedDialog
                         ELSE [open |-> TRUE, diffs |-> rest, merged |-> merged,
                               cloud_db |-> Alias(dialog.cloud_db, merged, r.db)]
           /\ last' = [op |-> "merge", pre |-> db_data, hashes |-> {h},
                       items |-> dialog.cloud_db, day |-> today, saved |-> TRUE,
                       save_ok |-> r.ok,
                       notice |-> IF rest = <<>> THEN Notice("info", "All resolved.")
                                  ELSE NoNotice]
    /\ UNCHANGED <<fs, today, inventory, app_inventory, net, bg>>

\* the loop of apply_all: on_apply for every difference, in order
RECURSIVE ApplyLoop(_, _, _, _, _)
ApplyLoop(db, file, diffs, cloud_db, io) ==
    IF diffs = <<>>
    THEN [db |-> db, file |-> file, ok |-> TRUE]
    ELSE LET h == Head(diffs)[1]
             r == apply_cloud_merge(db, file, h, cloud_db[h], io)
             t == ApplyLoop(r.db, r.file, Tail(diffs), cloud_db, io)
         IN  [db |-> t.db, file |-> t.file, ok |-> r.ok /\ t.ok]

\* CloudSyncDialog.apply_all, confirmed by the user
ApplyAll(io) ==
    /\ dialog.open
    /\ LET r == ApplyLoop(db_data, db_file, dialog.diffs, dialog.cloud_db, io) IN
           /\ db_data' = r.db
           /\ db_file' = r.file
           /\ last' = [op |-> "merge_all", pre |-> db_data,
                       hashes |-> {dialog.diffs[i][1] : i \in DOMAIN dialog.diffs},
                       items |-> dialog.cloud_db, day |-> today,
                       saved |-> dialog.diffs # <<>>, save_ok |-> r.ok,
                       notice |-> Notice("info", "All applied.")]
    /\ dialog' = ClosedDialog
    /\ UNCHANGED <<fs, today, inventory, app_inventory, net, bg>>

\* CloudSyncDialog.ignore_single on the idx-th difference
IgnoreSingle(idx) ==
    /\ dialog.open /\ idx \in 1..Len(dialog.diffs)
    /\ dialog' = [dialog EXCEPT !.diffs = DelAt(dialog.diffs, idx)]
    /\ last' = [op |-> "ignore"]
    /\ UNCHANGED <<fs, today, db_file, db_data, inventory, app_inventory, net, bg>>

\* the user closes the dialog window
CloseDialog ==
    /\ dialog.open
    /\ dialog' = ClosedDialog
    /\ last' = [op |-> "close"]
    /\ UNCHANGED <<fs, today, db_file, db_data, inventory, app_inventory, net, bg>>

-----------------------------------------------------------------------------
(* dance_manager.py: editing the selected entries.                         *)

\* new_name[:-8] when the name ends in .unity3d
StripSuffix(n) ==
    CASE n = "a.unity3d" -> "a"
      [] n = "b.unity3d" -> "b"
      [] OTHER -> n

\* what the form holds when Save Changes is pressed: the name and author
\* stripped, the credits split into lines, the comment stripped; cred_batch
\* and comm_batch say that the field still starts with the "Batch:" text
\* populate_editor puts there for a selection of several entries, for which
\* the name field is disabled and not read
Forms ==
    [name : {"a", "b.unity3d"}, auth : {"", "X"},
     cred : {<<"">>, <<"Motion: m", "">>}, cred_batch : BOOLEAN,
     comm : {"", "nice"}, comm_batch : BOOLEAN]

\* [x for x in new_cred if x]
RECURSIVE CleanCred(_)
CleanCred(lines) ==
    IF lines = <<>> THEN <<>>
    ELSE IF Head(lines) = "" THEN CleanCred(Tail(lines))
    ELSE <<Head(lines)>> \o CleanCred(Tail(lines))

\* save_local_changes, lines 792-822: the body of the loop for one entry
EditEntry(data, form, is_batch) ==
    LET new_name == StripSuffix(form.name)
        skip_cred == is_batch /\ form.cred_batch
        skip_comm == is_batch /\ form.comm_batch
        set_name == ~is_batch /\ data.name # Some(new_name)
        set_auth == form.auth # "" /\ data.author # Some(form.auth)
        clean_cred == CleanCred(form.cred)
        set_cred == ~skip_cred /\ data.credits # Some(clean_cred)
        set_comm == ~skip_comm /\ form.comm # Get(data.comment, "")
        has_changed == set_name \/ set_auth \/ set_cred \/ set_comm
    IN  [name    |-> IF set_name THEN Some(new_name) ELSE data.name,
         author  |-> IF set_auth THEN Some(form.auth) ELSE data.author,
         credits |-> IF set_cred THEN Some(clean_cred) ELSE data.credits,
         comment |-> IF set_comm
                     THEN (IF form.comm # "" THEN Some(form.comm) ELSE None)
                     ELSE data.comment,
         updated |-> IF has_changed THEN Some(today) ELSE data.updated]

\* save_local_changes on the selection hashes: the entries are edited in
\* place, save_db is called and "Saved" is shown
SaveLocalChanges(hashes, form, io) ==
    LET is_batch == Cardinality(hashes) > 1
        edited == [h \in DOMAIN db_data |->
                      IF h \in hashes THEN EditEntry(db_data[h], form, is_batch)
                      ELSE db_data[h]]
        r == save_db(edited, db_file, io)
    IN  /\ Started /\ ~dialog.open
        /\ hashes # {}
        /\ hashes \subseteq (DOMAIN db_data) \cap (DOMAIN inventory)
        /\ ~is_batch => ~form.cred_batch /\ ~form.comm_batch
        /\ is_batch => form.name = "a"
        /\ db_data' = r.db
        /\ db_file' = r.file
        /\ last' = [op |-> "edit", hashes |-> hashes,
                    day |-> today, saved |-> TRUE, save_ok |-> r.ok,
                    notice |-> Notice("info", "Saved")]
        /\ UNCHANGED <<fs, today, inventory, dialog, app_inventory, net>>

-----------------------------------------------------------------------------
(* The application of dance_manager.py, scanning a file tree that changes   *)
(* under it.  The disk takes every write of the catalogue file.            *)

Init ==
    /\ fs \in { [exists |-> TRUE, files |-> NoFiles], [exists |-> FALSE, files |-> NoFiles] }
    /\ today = 1
    /\ db_file \in InitFiles
    /\ db_data = EmptyDict
    /\ inventory = EmptyDict
    /\ dialog = ClosedDialog
    /\ net = NoFetch
    /\ bg = NoWorkers
    /\ app_inventory = EmptyDict
    /\ last = [op |-> "init"]

Next ==
    \/ FsChange
    \/ AdvanceDay
    \/ RunStartupTasks(ReliableWrites)
    \/ OnPathChange(ReliableWrites)
    \/ RefreshScan(ReliableWrites)

Spec == Init /\ [][Next]_vars

-----------------------------------------------------------------------------
(* The application of dance_manager.py, checking the cloud and merging,    *)
(* over a file tree that stays as it is.  The disk takes every write; a    *)
(* save still fails here when an entry lacks the keys save_db sorts by.    *)

OneFile == [p \in Paths |-> IF p = <<"a.unity3d">> THEN "c1" ELSE NoFile]

InitCloud ==
    /\ fs \in { [exists |-> TRUE, files |-> NoFiles], [exists |-> TRUE, files |-> OneFile] }
    /\ today = 1
    /\ db_file \in InitFiles
    /\ db_data = EmptyDict
    /\ inventory = EmptyDict
    /\ dialog = ClosedDialog
    /\ net = NoFetch
    /\ bg = NoWorkers
    /\ app_inventory = EmptyDict
    /\ last = [op |-> "init"]

NextCloud ==
    \/ AdvanceDay
    \/ RunStartupTasks(ReliableWrites)
    \/ RefreshScan(ReliableWrites)
    \/ \E doc \in CloudDocs, silent, review \in BOOLEAN : OnCloudResult(Some(doc), silent, review)
    \/ \E silent \in BOOLEAN : OnCloudResult(None, silent, FALSE)
    \/ \E idx \in 1..Cardinality(Hashes), io \in ReliableWrites : ApplySingle(idx, io)
    \/ \E io \in ReliableWrites : ApplyAll(io)
    \/ \E idx \in 1..Cardinality(Hashes) : IgnoreSingle(idx)
    \/ CloseDialog

SpecCloud == InitCloud /\ [][NextCloud]_vars

-----------------------------------------------------------------------------
(* The application of dance_manager.py with its editor, over two files     *)
(* and a disk on which a write may fail.                                   *)

TwoFiles == [p \in Paths |-> IF p = <<"a.unity3d">> THEN "c1" ELSE "c2"]

InitEdit ==
    /\ fs = [exists |-> TRUE, files |-> TwoFiles]
    /\ today = 1
    /\ db_file \in {MissingFile, Doc(<<"h1">>, [h \in {"h1"} |-> Annotated])}
    /\ db_data = EmptyDict
    /\ inventory = EmptyDict
    /\ dialog = ClosedDialog
    /\ net = NoFetch
    /\ bg = NoWorkers
    /\ app_inventory = EmptyDict
    /\ last = [op |-> "init"]

NextEdit ==
    \/ RunStartupTasks(BrokenWrites)
    \/ RefreshScan(BrokenWrites)
    \/ \E hashes \in SUBSET Hashes, form \in Forms, io \in BrokenWrites :
          SaveLocalChanges(hashes, form, io) /\ UNCHANGED bg

SpecEdit == InitEdit /\ [][NextEdit]_vars

-----------------------------------------------------------------------------
(* dance_manager.py with its threads.  refresh_scan starts a thread that   *)
(* runs scan_local_files on the backend the window thread uses, and hands  *)
(* the result back with root.after; the window thread runs the handlers    *)
(* one at a time.  A scan thread takes one file per step.                  *)

Workers == 1..MaxWorkers

\* no directory: what self.dances_dir.exists() is false for
NoDances == [exists |-> FALSE, files |-> NoFiles]

\* refresh_scan, lines 570-579: the button is disabled and a thread started.
\* The thread reads self.dances_dir when it runs: dir is the directory it
\* listed, whose files it goes on reading
StartWorker(b) ==
    LET w == CHOOSE i \in Workers : i \notin DOMAIN b.workers IN
    [b EXCEPT !.btn_refresh = FALSE,
              !.workers = Put(@, w, [pc |-> "start", dir |-> NoDances, todo |-> <<>>,
                                     inv |-> EmptyDict, cnt |-> 0])]

\* threads alive and callbacks waiting are capped together
CanStart == Cardinality(DOMAIN bg.workers) + Len(bg.queue) < MaxWorkers

Scanning == DOMAIN bg.workers # {}

\* run_startup_tasks
TRunStartupTasks ==
    /\ ~Started /\ CanStart
    /\ db_data' = load_db(db_file)
    /\ bg' = StartWorker(bg)
    /\ last' = [op |-> "startup", scanning |-> Scanning]
    /\ UNCHANGED <<fs, today, db_file, inventory, dialog, app_inventory, net>>

\* the Refresh Scan button, when it is enabled
TRefreshScan ==
    /\ Started /\ CanStart /\ bg.btn_refresh
    /\ bg' = StartWorker(bg)
    /\ last' = [op |-> "refresh", scanning |-> Scanning]
    /\ UNCHANGED <<fs, today, db_file, db_data, inventory, dialog, app_inventory, net>>

\* Return in the path field, or Browse: set_root_path (load_db), refresh_scan
TOnPathChange ==
    /\ Started /\ CanStart
    /\ db_data' = load_db(db_file)
    /\ bg' = StartWorker(bg)
    /\ last' = [op |-> "path_change", scanning |-> Scanning]
    /\ UNCHANGED <<fs, today, db_file, inventory, dialog, app_inventory, net>>

\* scan_local_files, lines 98-103, in the scan thread w
WorkerStart(w) ==
    /\ w \in DOMAIN bg.workers /\ bg.workers[w].pc = "start"
    /\ \E found \in Orderings(Present(fs)) :
          bg' = [bg EXCEPT !.workers[w].pc = "loop",
                           !.workers[w].dir = fs,
                           !.workers[w].todo = IF fs.exists THEN found ELSE <<>>]
    /\ last' = [op |-> "worker_start", wrote |-> FALSE]
    /\ UNCHANGED <<fs, today, db_file, db_data, inventory, dialog, app_inventory, net>>

\* lines 105-128 for the next path, in the scan thread w: self.db_data is
\* the dict the window thread holds
WorkerFile(w, read_fails) ==
    /\ w \in DOMAIN bg.workers /\ bg.workers[w].pc = "loop"
    /\ bg.workers[w].todo # <<>>
    /\ LET me == bg.workers[w]
           p == Head(me.todo)
           fhash == IF read_fails \/ me.dir.files[p] = NoFile THEN None
                    ELSE Some(Md5Hex8(me.dir.files[p]))
           r == ScanHashed([db |-> db_data, inv |-> me.inv, cnt |-> me.cnt], p, fhash)
       IN  /\ db_data' = r.db
           /\ bg' = [bg EXCEPT !.workers[w].todo = Tail(me.todo),
                                !.workers[w].inv = r.inv,
                                !.workers[w].cnt = r.cnt]
           /\ last' = [op |-> "worker_file", wrote |-> r.db # db_data]
    /\ UNCHANGED <<fs, today, db_file, inventory, dialog, app_inventory, net>>

\* lines 130-131 and the worker's root.after, in the scan thread w
WorkerReturn(w) ==
    /\ w \in DOMAIN bg.workers /\ bg.workers[w].pc = "loop"
    /\ bg.workers[w].todo = <<>>
    /\ LET me == bg.workers[w] IN
           /\ inventory' = IF me.dir.exists THEN me.inv ELSE inventory
           /\ bg' = [bg EXCEPT
                       !.workers = [v \in (DOMAIN bg.workers) \ {w} |-> bg.workers[v]],
                       !.queue = Append(@, [inv |-> me.inv, cnt |-> me.cnt])]
           /\ last' = [op |-> "worker_return", wrote |-> me.dir.exists]
    /\ UNCHANGED <<fs, today, db_file, db_data, dialog, app_inventory, net>>

\* _on_scan_done, run by the window thread for the first callback queued
TOnScanDone(io) ==
    /\ bg.queue # <<>>
    /\ LET cb == Head(bg.queue)
           r == IF cb.cnt > 0 THEN save_db(db_data, db_file, io)
                ELSE [db |-> db_data, file |-> db_file, ok |-> TRUE]
       IN  /\ db_data' = r.db
           /\ db_file' = r.file
           /\ bg' = [bg EXCEPT !.queue = Tail(@), !.btn_refresh = TRUE]
           /\ last' = [op |-> "scan_done", cnt |-> cb.cnt, saved |-> cb.cnt > 0,
                       save_ok |-> r.ok, notice |-> ScanNotice(cb.cnt),
                       scanning |-> Scanning]
    /\ UNCHANGED <<fs, today, inventory, dialog, app_inventory, net>>

\* Save Changes, pressed at any time
TSaveLocalChanges(hashes, form) ==
    /\ SaveLocalChanges(hashes, form, "ok")
    /\ UNCHANGED bg

InitThreads ==
    /\ fs = [exists |-> TRUE, files |-> TwoFiles]
    /\ today = 1
    /\ db_file \in {MissingFile, Doc(<<"h1">>, [h \in {"h1"} |-> Annotated])}
    /\ db_data = EmptyDict
    /\ inventory = EmptyDict
    /\ dialog = ClosedDialog
    /\ net = NoFetch
    /\ bg = NoWorkers
    /\ app_inventory = EmptyDict
    /\ last = [op |-> "init"]

\* the edit the user makes while the tool scans
ThreadForms == {f \in Forms : f.name = "a" /\ f.auth = "" /\ f.cred = <<"">>}

NextThreads ==
    \/ TRunStartupTasks
    \/ TRefreshScan
    \/ TOnPathChange
    \/ \E w \in Workers : WorkerStart(w)
    \/ \E w \in Workers, read_fails \in BOOLEAN : WorkerFile(w, read_fails)
    \/ \E w \in Workers : WorkerReturn(w)
    \/ TOnScanDone("ok")
    \/ \E hashes \in SUBSET Hashes, form \in ThreadForms : TSaveLocalChanges(hashes, form)

SpecThreads == InitThreads /\ [][NextThreads]_vars

-----------------------------------------------------------------------------
(* dance_gui_manager.py: the older tool.  It keeps no catalogue in memory: *)
(* every scan loads dances.json, rebuilds the catalogue from the files it   *)
(* finds and writes it back; DanceManagerApp.inventory holds, per           *)
(* fingerprint, the path and the entry.                                     *)

\* AUTHOR_MAP: folder name -> author (an identity map on its keys)
AuthorMapKeys == {"tanito", "wdsa", "Xenophon"}

RECURSIVE FirstMapped(_)
FirstMapped(parts) ==
    IF parts = <<>> THEN None
    ELSE IF Head(parts) \in AuthorMapKeys THEN Some(Head(parts))
    ELSE FirstMapped(Tail(parts))

\* get_author_from_path: the first part of the relative path that is a key of
\* AUTHOR_MAP, else AUTHOR_MAP.get(parent name, "Unknown")
get_author_from_path(p) ==
    IF FirstMapped(p) # None THEN FirstMapped(p)[1]
    ELSE IF ParentName(p) \in AuthorMapKeys THEN ParentName(p)
    ELSE "Unknown"

\* file_hash: None when the file is gone at the time it is opened (failed is
\* the set of such files); only FileNotFoundError is caught
file_hash(p, failed) ==
    IF p \in failed \/ fs.files[p] = NoFile
    THEN None
    ELSE Some(Md5Hex8(fs.files[p]))

\* load_database
load_database(file) == IF file.state = "ok" THEN file.data ELSE EmptyDict

\* save_database: json.dump of the dict as it is, keys in insertion order
save_database(order, data, file, io) ==
    CASE io = "ok" -> Doc(order, data)
      [] io = "open_fails" -> file
      [] io = "dump_fails" -> CorruptFile

\* _refresh_data_worker, lines 556-562
GuiNewEntry(p) ==
    Entry(Some(FileName(p)), Some(get_author_from_path(p)), Some(<<>>), Some(""), Some(today))

\* lines 549-551: the stored name follows the file name
FollowName(e, p) ==
    IF e.name # Some(FileName(p))
    THEN [e EXCEPT !.name = Some(FileName(p)), !.updated = Some(today)]
    ELSE e

\* lines 535-567: the loop body for one path.  dance_data is the object held
\* by db_data, so the renaming shows in db_data; a new entry is not put
\* into db_data.
GuiScanFile(acc, p, failed) ==
    LET fhash == file_hash(p, failed) IN
    IF fhash = None
    THEN acc
    ELSE LET h == fhash[1]
             known == h \in DOMAIN acc.db
             dance_data == IF known THEN FollowName(acc.db[h], p) ELSE GuiNewEntry(p)
         IN  [db    |-> IF known THEN Put(acc.db, h, dance_data) ELSE acc.db,
              inv   |-> Put(acc.inv, h, [path |-> p, data |-> dance_data]),
              order |-> IF h \in DOMAIN acc.inv THEN acc.order ELSE Append(acc.order, h),
              cnt   |-> IF known THEN acc.cnt ELSE acc.cnt + 1]

RECURSIVE GuiScanLoop(_, _, _)
GuiScanLoop(acc, found, failed) ==
    IF found = <<>>
    THEN acc
    ELSE GuiScanLoop(GuiScanFile(acc, Head(found), failed), Tail(found), failed)

\* the catalogue held in DanceManagerApp.inventory
GuiCatalog == [h \in DOMAIN app_inventory |-> app_inventory[h].data]

\* refresh_data: _refresh_data_worker followed by _on_scan_complete
RefreshData(outcomes) ==
    /\ bg.btn_refresh
    /\ \E found \in Orderings(Present(fs)) :
       \E failed \in SUBSET Present(fs) :
       \E io \in outcomes :
           LET db == load_database(db_file)
               r == GuiScanLoop([db |-> db, inv |-> EmptyDict, order |-> <<>>, cnt |-> 0],
                                found, failed)
               final_db_to_save == [h \in DOMAIN r.inv |-> r.inv[h].data]
           IN  /\ db_file' = save_database(r.order, final_db_to_save, db_file, io)
               /\ app_inventory' = r.inv
               /\ last' = [op |-> "scan", tool |-> "dance_gui_manager",
                           pre |-> db, loaded |-> TRUE,
                           found |-> found, all_read |-> failed = {},
                           failed |-> failed,
                           ret_inv |-> [h \in DOMAIN r.inv |-> r.inv[h].path],
                           cnt |-> r.cnt, saved |-> TRUE, save_ok |-> io = "ok",
                           prev |-> Prev]
               /\ UNCHANGED <<fs, today, db_data, inventory, dialog, net, bg>>

\* refresh_data when the open of a found file raises an error other than
\* FileNotFoundError (denied is the set of such files): file_hash lets it
\* through, the worker thread ends at that file, and neither save_database
\* nor _on_scan_complete runs, so the Refresh button stays disabled
RefreshDataAborts ==
    /\ bg.btn_refresh
    /\ \E found \in Orderings(Present(fs)) :
       \E denied \in (SUBSET Present(fs)) \ {{}} :
           last' = [op |-> "scan_aborted", tool |-> "dance_gui_manager",
                    found |-> found, denied |-> denied]
    /\ bg' = [bg EXCEPT !.btn_refresh = FALSE]
    /\ UNCHANGED <<fs, today, AppVars, net>>

InitGui ==
    /\ fs \in { [exists |-> TRUE, files |-> NoFiles] }
    /\ today = 1
    /\ db_file \in InitFiles
    /\ db_data = EmptyDict
    /\ inventory = EmptyDict
    /\ dialog = ClosedDialog
    /\ net = NoFetch
    /\ bg = NoWorkers
    /\ app_inventory = EmptyDict
    /\ last = [op |-> "start"]

NextGui ==
    \/ FsChange
    \/ AdvanceDay
    \/ RefreshData(ReliableWrites)
    \/ RefreshDataAborts

SpecGui == InitGui /\ [][NextGui]_vars

-----------------------------------------------------------------------------
(* The diff as a function of the two catalogues: every local catalogue of   *)
(* LocalCatalogs against every remote document of RemoteDocs, by            *)
(* calculate_cloud_diffs of dance_manager.py and by calculate_diffs of      *)
(* dance_gui_manager.py.                                                    *)

\* CloudSyncDialog.calculate_diffs of dance_gui_manager.py, lines 132-135
GuiItemsDiffer(c_item, l_item) ==
    \/ c_item.name # l_item.name
    \/ c_item.author # l_item.author
    \/ c_item.credits # l_item.credits
    \/ c_item.comment # l_item.comment

\* lines 128-138: what one cloud key appends to diffs
GuiDiffOf(h, c_item, local_data) ==
    IF h \in DOMAIN local_data
    THEN IF GuiItemsDiffer(c_item, local_data[h].data) THEN << <<h, "UPDATE">> >> ELSE <<>>
    ELSE << <<h, "NEW DB ENTRY">> >>

RECURSIVE GuiDiffLoop(_, _, _)
GuiDiffLoop(keys, cloud, local_data) ==
    IF keys = <<>>
    THEN <<>>
    ELSE GuiDiffOf(Head(keys), cloud[Head(keys)], local_data)
            \o GuiDiffLoop(Tail(keys), cloud, local_data)

\* CloudSyncDialog.calculate_diffs
calculate_diffs(doc, local_data) == GuiDiffLoop(doc.order, doc.data, local_data)

LocalEntries ==
    { Entry(n, a, cr, co, Some(1)) :
        n \in {None, Some("a")},
        a \in {Some("X"), Some("Y")},
        cr \in {None, Some(<<>>), Some(<<"Motion: m">>)},
        co \in {None, Some(""), Some("None"), Some("nice")} }

RemoteEntries ==
    LocalEntries \cup {[e EXCEPT !.updated = None] : e \in LocalEntries}

\* h1 is known to both sides, h2 only locally, h3 only remotely
LocalCatalogs ==
    {[h \in {"h1"} |-> e] : e \in LocalEntries}
        \cup {[h \in {"h1", "h2"} |-> IF h = "h1" THEN e ELSE Annotated] : e \in LocalEntries}

RemoteCatalogs ==
    {EmptyDict, [h \in {"h3"} |-> RemoteOnly]}
        \cup LocalCatalogs
        \cup {[h \in {"h1"} |-> e] : e \in RemoteEntries}
        \cup {[h \in {"h1", "h3"} |-> IF h = "h1" THEN e ELSE RemoteOnly] : e \in RemoteEntries}

RemoteDocs == UNION {{Doc(o, d) : o \in Orderings(DOMAIN d)} : d \in RemoteCatalogs}

\* the local catalogue as dance_gui_manager.py holds it
AsInventory(db) == [h \in DOMAIN db |-> [path |-> <<"a.unity3d">>, data |-> db[h]]]

InitDiff ==
    /\ fs = [exists |-> TRUE, files |-> NoFiles]
    /\ today = 1
    /\ db_file = MissingFile
    /\ db_data \in LocalCatalogs
    /\ inventory = EmptyDict
    /\ dialog = ClosedDialog
    /\ net = NoFetch
    /\ bg = NoWorkers
    /\ app_inventory = AsInventory(db_data)
    /\ last = [op |-> "input"]

CalculateDiffs(doc) ==
    /\ last.op = "input"
    /\ last' = [op |-> "diff", cloud |-> doc,
                diffs |-> calculate_cloud_diffs(doc, db_data),
                gui_diffs |-> calculate_diffs(doc, app_inventory)]
    /\ UNCHANGED <<fs, today, db_file, db_data, inventory, dialog, app_inventory, net, bg>>

NextDiff == \E doc \in RemoteDocs : CalculateDiffs(doc)

SpecDiff == InitDiff /\ [][NextDiff]_vars

-----------------------------------------------------------------------------
(* Loading and saving as functions of the catalogue: save_db and load_db   *)
(* of dance_manager.py, save_database of dance_gui_manager.py and          *)
(* sort_dances.py, applied to every catalogue of IoCatalogs.               *)

\* sort_dances: read the file, sort, write it back; nothing is written when
\* the file is missing, json.load raises or an entry lacks author or name
sort_dances(file, io) ==
    IF file.state # "ok" \/ \E h \in DOMAIN file.data : ~HasSortKey(file.data[h])
    THEN [file |-> file, ok |-> FALSE]
    ELSE CASE io = "ok" -> [file |-> Doc(SortedKeys(file.data), file.data), ok |-> TRUE]
           [] io = "open_fails" -> [file |-> file, ok |-> FALSE]
           [] io = "dump_fails" -> [file |-> CorruptFile, ok |-> FALSE]

\* entries that share author and name, an empty comment, an entry of the
\* older tool and one that lacks the keys save_db sorts by
IoEntries ==
    { Annotated,
      Entry(Some("a"), Some("X"), Some(<<>>), None, Some(1)),
      Entry(Some("b"), Some("X"), Some(<<>>), Some(""), None),
      OldStyle,
      Sparse }

IoCatalogs == UNION {[K -> IoEntries] : K \in SUBSET Hashes}

InitIO ==
    /\ fs = [exists |-> TRUE, files |-> NoFiles]
    /\ today = 1
    /\ db_file \in {MissingFile, Doc(<<"h1">>, [h \in {"h1"} |-> Annotated])}
    /\ db_data \in IoCatalogs
    /\ inventory = EmptyDict
    /\ dialog = ClosedDialog
    /\ net = NoFetch
    /\ bg = NoWorkers
    /\ app_inventory = EmptyDict
    /\ last = [op |-> "input"]

SaveDb(io) ==
    LET r == save_db(db_data, db_file, io) IN
    /\ db_data' = r.db
    /\ db_file' = r.file
    /\ last' = [op |-> "save", tool |-> "dance_manager", x |-> db_data,
                pre_file |-> db_file, io |-> io, ok |-> r.ok,
                after_load |-> (last.op = "load" /\ last.after_save)]
    /\ UNCHANGED <<fs, today, inventory, dialog, app_inventory, net, bg>>

LoadDb ==
    /\ db_data' = load_db(db_file)
    /\ last' = [op |-> "load",
                after_save |-> (last.op = "save" /\ last.tool = "dance_manager" /\ last.ok),
                x |-> IF last.op = "save" THEN last.x ELSE EmptyDict]
    /\ UNCHANGED <<fs, today, db_file, inventory, dialog, app_inventory, net, bg>>

\* save_database(current_db): the dict is written in the order its keys were
\* inserted in, which is the order the scan met the files in
GuiSave(order, io) ==
    /\ db_file' = save_database(order, db_data, db_file, io)
    /\ last' = [op |-> "save", tool |-> "dance_gui_manager", x |-> db_data,
                pre_file |-> db_file, io |-> io, ok |-> io = "ok", after_load |-> FALSE]
    /\ UNCHANGED <<fs, today, db_data, inventory, dialog, app_inventory, net, bg>>

SortDances(io) ==
    LET r == sort_dances(db_file, io) IN
    /\ db_file.state # "missing"
    /\ db_file' = r.file
    /\ last' = [op |-> "save", tool |-> "sort_dances", x |-> db_file.data,
                pre_file |-> db_file, io |-> io, ok |-> r.ok, after_load |-> FALSE]
    /\ UNCHANGED <<fs, today, db_data, inventory, dialog, app_inventory, net, bg>>

NextIO ==
    \/ \E io \in WriteOutcomes : SaveDb(io)
    \/ LoadDb
    \/ \E order \in Orderings(DOMAIN db_data), io \in WriteOutcomes : GuiSave(order, io)
    \/ \E io \in WriteOutcomes : SortDances(io)

SpecIO == InitIO /\ [][NextIO]_vars

-----------------------------------------------------------------------------
(* Scanning: what a scan does to the catalogue.                            *)

AfterScan == last.op = "scan"

\* the catalogue the tool holds after its scan
CatalogAfter == IF last.tool = "dance_manager" THEN db_data ELSE GuiCatalog

\* an absent comment and an empty one are the same comment
Comment(e) == Get(e.comment, "")

SameAnnotations(e1, e2) ==
    /\ e1.author = e2.author
    /\ e1.credits = e2.credits
    /\ Comment(e1) = Comment(e2)

\* the files that hold the content with fingerprint h
FilesOf(h) == {p \in Present(fs) : Md5Hex8(fs.files[p]) = h}

\* the entry is named after the file, with or without the suffix
NamedAfter(e, p) == e.name \in {Some(Stem(p)), Some(FileName(p))}

\* C1: an entry whose content a scan finds under a file name other than the
\* stored name is renamed to the current file name by the scan, and keeps its
\* author, credits and comment.
C1_RenameFollowed ==
    AfterScan =>
        \A h \in (DOMAIN last.pre) \cap (DOMAIN last.ret_inv) :
            LET p == last.ret_inv[h] IN
            (FilesOf(h) = {p} /\ ~NamedAfter(last.pre[h], p)) =>
                /\ h \in DOMAIN CatalogAfter
                /\ NamedAfter(CatalogAfter[h], p)
                /\ SameAnnotations(CatalogAfter[h], last.pre[h])

\* C2: a scan right after a file was overwritten in place (same name, new
\* content) puts an entry under the new fingerprint that carries the old
\* entry's author, credits and comment, and drops the old fingerprint.
C2_OverwriteMigrates ==
    (AfterScan /\ last.prev.op = "overwrite") =>
        LET p == last.prev.path
            old == Md5Hex8(last.prev.old)
            new == Md5Hex8(fs.files[p])
        IN  ( /\ old \in DOMAIN last.pre
              /\ NamedAfter(last.pre[old], p)
              /\ new \notin DOMAIN last.pre
              /\ new \in DOMAIN last.ret_inv
              /\ FilesOf(old) = {} ) =>
                /\ new \in DOMAIN CatalogAfter
                /\ SameAnnotations(CatalogAfter[new], last.pre[old])
                /\ old \notin DOMAIN CatalogAfter

\* C3: every fingerprint the catalogue had before a scan is a key after it,
\* in memory and in the file the scan saved, with its author, credits and
\* comment, whether or not a file with that fingerprint exists.
C3_EntriesRetained ==
    AfterScan =>
        \A h \in DOMAIN last.pre :
            /\ h \in DOMAIN CatalogAfter
            /\ SameAnnotations(CatalogAfter[h], last.pre[h])
            /\ (last.saved /\ last.save_ok) =>
                  /\ h \in DOMAIN db_file.data
                  /\ SameAnnotations(db_file.data[h], last.pre[h])

\* two scans in a row of one unchanged tree, every file read both times
SameTreeTwice ==
    /\ AfterScan
    /\ last.prev.op = "scan"
    /\ last.all_read /\ last.prev.all_read
    /\ last.tool = "dance_gui_manager" => last.found = last.prev.found
    /\ last.tool = "dance_manager" => ~last.loaded

\* C4: the second of two scans in a row of an unchanged tree reports no new
\* entry and leaves every field of every entry, 'updated' included, as the
\* first scan left it.
C4_RescanIdempotent ==
    SameTreeTwice => (last.cnt = 0 /\ CatalogAfter = last.pre)

\* the fingerprints of the files in the tree
HashesOnDisk == {Md5Hex8(fs.files[p]) : p \in Present(fs)}

FreshScan ==
    /\ AfterScan
    /\ last.tool = "dance_manager"
    /\ last.pre = EmptyDict
    /\ last.all_read

\* C5: a scan of N readable files into an empty catalogue leaves one entry
\* per distinct content and returns their number as the count of new
\* entries: N when the N contents differ pairwise, and files that share a
\* content make one entry, counted once.
C5_FreshScanCounts ==
    FreshScan =>
        /\ DOMAIN db_data = HashesOnDisk
        /\ last.cnt = Cardinality(HashesOnDisk)
        /\ (\A p, q \in Present(fs) : fs.files[p] = fs.files[q] => p = q) =>
              last.cnt = Cardinality(Present(fs))

C5_Witness ==
    /\ FreshScan
    /\ Cardinality(Present(fs)) = 2
    /\ last.cnt = 1

-----------------------------------------------------------------------------
(* The diff.                                                               *)

AfterDiff == last.op = "diff"

\* the positions of the diff entries for fingerprint h
DiffEntriesOf(diffs, h) == {i \in DOMAIN diffs : diffs[i][1] = h}

\* C6: the diff of a catalogue against a remote catalogue with the same
\* contents is empty, also when entries lack name, credits or comment.
C6_DiffOfEqualIsEmpty ==
    (AfterDiff /\ last.cloud.data = db_data) =>
        (last.diffs = <<>> /\ last.gui_diffs = <<>>)

C6_Witness ==
    /\ AfterDiff
    /\ last.cloud.data = db_data
    /\ db_data["h1"].name = None
    /\ db_data["h1"].credits # None
    /\ db_data["h1"].comment = None
    /\ "h2" \in DOMAIN db_data
    /\ last.cloud.order = <<"h2", "h1">>

\* the four compared fields differ, an absent comment being an empty one
FieldsDiffer(c_item, l_item) ==
    \/ c_item.name # l_item.name
    \/ c_item.author # l_item.author
    \/ c_item.credits # l_item.credits
    \/ Comment(c_item) # Comment(l_item)

\* C7: the diff has exactly one NEW entry per fingerprint that is remote and
\* not local, exactly one UPDATE entry per fingerprint on both sides whose
\* name, author, credits or comment differ, and no entry for any other
\* fingerprint.
C7_DiffClassifies ==
    AfterDiff =>
        \A h \in Hashes :
            LET at == DiffEntriesOf(last.diffs, h)
                remote == last.cloud.data
                kind == IF h \notin DOMAIN remote THEN "none"
                        ELSE IF h \notin DOMAIN db_data THEN "NEW DB ENTRY"
                        ELSE IF FieldsDiffer(remote[h], db_data[h]) THEN "UPDATE"
                        ELSE "none"
            IN  IF kind = "none"
                THEN at = {}
                ELSE Cardinality(at) = 1 /\ \A i \in at : last.diffs[i][2] = kind

\* C8: a fingerprint on both sides with equal name, author and credits, one
\* side without comment and the other with comment "", gets no UPDATE entry.
C8_EmptyCommentIsAbsent ==
    AfterDiff =>
        \A h \in (DOMAIN db_data) \cap (DOMAIN last.cloud.data) :
            LET c_item == last.cloud.data[h]
                l_item == db_data[h]
            IN  ( /\ c_item.name = l_item.name
                  /\ c_item.author = l_item.author
                  /\ c_item.credits = l_item.credits
                  /\ {c_item.comment, l_item.comment} = {None, Some("")} ) =>
                    /\ DiffEntriesOf(last.diffs, h) = {}
                    /\ DiffEntriesOf(last.gui_diffs, h) = {}

-----------------------------------------------------------------------------
(* The cloud fetch of either tool, one request at a time.                  *)

InitFetch ==
    /\ fs = [exists |-> TRUE, files |-> NoFiles]
    /\ today = 1
    /\ db_file = MissingFile
    /\ db_data = EmptyDict
    /\ inventory = EmptyDict
    /\ dialog = ClosedDialog
    /\ net = NoFetch
    /\ bg = NoWorkers
    /\ app_inventory = EmptyDict
    /\ last = [op |-> "init"]

\* run_cloud_check / _cloud_worker: the worker calls the fetch
StartFetch(tool) ==
    /\ net.pc \in {"idle", "done"}
    /\ net' = [NoFetch EXCEPT !.tool = tool, !.pc = "loop"]
    /\ UNCHANGED <<fs, today, AppVars, bg, last>>

FetchAttempt(resp) ==
    /\ net.pc = "loop"
    /\ net' = FetchStep(net, resp)
    /\ UNCHANGED <<fs, today, AppVars, bg, last>>

NextFetch ==
    \/ \E tool \in Tools : StartFetch(tool)
    \/ \E resp \in Responses : FetchAttempt(resp)

SpecFetch == InitFetch /\ [][NextFetch]_vars

-----------------------------------------------------------------------------
(* Fetching from the mirrors.                                              *)

Failed(i) == net.log[i].resp.kind # "ok"

Pos(u) == CHOOSE i \in 1..Len(Urls(net.tool)) : Urls(net.tool)[i] = u

RequestsTo(u) == Cardinality({i \in 1..Len(net.log) : net.log[i].url = u})

Mirrors == {Urls(net.tool)[i] : i \in 1..Len(Urls(net.tool))}

\* C10: the mirrors are asked in their configured order, each at most 3
\* times; the fetch returns failure only after every attempt on every mirror
\* has failed, each mirror having had all its attempts; it returns the
\* payload of the first successful attempt; and no request follows a
\* successful one.
C10_FetchOrder ==
    net.pc # "idle" =>
        /\ \A i, j \in 1..Len(net.log) : i < j => Pos(net.log[i].url) <= Pos(net.log[j].url)
        /\ \A u \in Mirrors : RequestsTo(u) <= Attempts
        /\ \A i \in 1..(Len(net.log) - 1) : Failed(i)
        /\ (net.pc = "done" /\ net.result = None) =>
              /\ \A i \in 1..Len(net.log) : Failed(i)
              /\ \A u \in Mirrors : RequestsTo(u) = Budget(net.tool)
        /\ (net.pc = "done" /\ net.result # None) =>
              /\ ~Failed(Len(net.log))
              /\ net.result = net.log[Len(net.log)].resp.body
        /\ net.pc = "loop" => net.result = None

\* the first mirror failed three times, the second once and then answered
C10_Witness ==
    /\ net.tool = "dance_manager" /\ net.pc = "done"
    /\ Len(net.log) = 5
    /\ net.result # None
    /\ net.log[5].url = CLOUD_URLS[2]
    /\ net.log[1].resp.kind = "raises"
    /\ net.log[2].resp.kind = "not_200"
    /\ net.log[3].resp.kind = "not_json"

-----------------------------------------------------------------------------
(* Merging a remote entry.                                                 *)

AfterMerge == last.op \in {"merge", "merge_all"}

\* the entry is the remote item, stamped with the day of the merge
IsRemoteItem(e, item, day) ==
    /\ e.name = item.name
    /\ e.author = item.author
    /\ e.credits = item.credits
    /\ Comment(e) = Comment(item)
    /\ e.updated = Some(day)

SameEntry(e1, e2) ==
    /\ e1.name = e2.name
    /\ e1.updated = e2.updated
    /\ SameAnnotations(e1, e2)

C9_WitnessNew ==
    /\ last.op = "merge"
    /\ last.hashes \cap DOMAIN last.pre = {}
    /\ DOMAIN last.pre # {}

-----------------------------------------------------------------------------
(* Saving and loading.                                                     *)

\* a save has written the catalogue file
Wrote == last.op = "save" /\ last.ok

FileKey(i) == SortKey(db_file.data, db_file.order[i])

\* C11: in a catalogue file written by a save, consecutive entries are in
\* ascending order of (author, name, fingerprint), and the keys written are
\* the keys of the catalogue in memory.
C11_SavedInOrder ==
    Wrote =>
        /\ db_file.state = "ok"
        /\ \A i \in 1..(Len(db_file.order) - 1) : ~KeyLess(FileKey(i + 1), FileKey(i))
        /\ {db_file.order[i] : i \in 1..Len(db_file.order)} = DOMAIN last.x
        /\ Len(db_file.order) = Cardinality(DOMAIN last.x)
        /\ DOMAIN db_file.data = DOMAIN last.x

\* the catalogue in memory that the tool has just written
Written ==
    IF last.op = "scan" THEN CatalogAfter ELSE last.x

HasWritten ==
    \/ Wrote /\ last.tool # "sort_dances"
    \/ last.op = "scan" /\ last.saved /\ last.save_ok

\* C12: in a catalogue file written by a save no entry has an empty comment:
\* an empty or absent comment is written as no comment field, any other
\* comment as it is.
C12_NoEmptyCommentOnDisk ==
    HasWritten =>
        /\ db_file.state = "ok"
        /\ \A h \in DOMAIN db_file.data :
              /\ db_file.data[h].comment # Some("")
              /\ h \in DOMAIN Written =>
                    db_file.data[h].comment =
                        (IF Comment(Written[h]) = "" THEN None ELSE Written[h].comment)

C14_SaveIsCrashSafe ==
    (last.op = "save" /\ last.tool # "sort_dances" /\ last.pre_file.state = "ok") =>
        \/ db_file = last.pre_file
        \/ /\ db_file.state = "ok"
           /\ DOMAIN db_file.data = DOMAIN last.x
           /\ \A h \in DOMAIN last.x : SameEntry(db_file.data[h], last.x[h])

-----------------------------------------------------------------------------
(* Telling the user.                                                       *)

\* the handler called save_db and the catalogue file was not written
SaveFailed ==
    /\ last.op \in {"scan", "merge", "merge_all", "edit"}
    /\ last.saved /\ ~last.save_ok

\* C15: when a save after a scan, a merge or an edit fails, the user is told
\* of the failure and is not shown a message of success.
C15_SaveFailureSurfaced ==
    SaveFailed => last.notice.kind = "error"

-----------------------------------------------------------------------------
(* Threads.                                                                *)

\* the last step was taken by a scan thread
ByWorker == last.op \in {"worker_start", "worker_file", "worker_return"}

\* C16: only the window thread writes the catalogue and the inventory; a
\* scan thread hands its result back and writes neither.
C16_SingleMutator ==
    ByWorker => ~last.wrote

\* a scan thread has files left to insert
Inserting == \E w \in DOMAIN bg.workers : bg.workers[w].todo # <<>>

\* the last step was a handler that saved the catalogue file
SaveRan == last.op \in {"edit", "scan_done"} /\ last.saved

\* C17: no save of the catalogue file runs while a scan thread is still
\* inserting entries into the catalogue.
C17_NoSaveDuringScan ==
    ~(SaveRan /\ Inserting)

\* C18: at most one scan is in flight; a second request is turned down.
C18_OneScanAtATime ==
    Cardinality(DOMAIN bg.workers) <= 1

-----------------------------------------------------------------------------
(* The inventory after a scan.                                             *)

\* fingerprint -> path as the tool holds it after its scan
InventoryAfter ==
    IF last.tool = "dance_manager" THEN inventory
    ELSE [h \in DOMAIN app_inventory |-> app_inventory[h].path]

\* C19: after a scan the inventory holds exactly the pairs that scan found,
\* also when it found no file or the Dances directory does not exist, and
\* no pair of an earlier scan.
C19_InventoryReplaced ==
    AfterScan =>
        /\ InventoryAfter = last.ret_inv
        /\ \A h \in DOMAIN InventoryAfter : InventoryAfter[h] \in FilesOf(h)
        /\ last.all_read =>
              DOMAIN InventoryAfter = (IF fs.exists THEN HashesOnDisk ELSE {})

-----------------------------------------------------------------------------
(* The outcome of a cloud check.                                           *)

\* a cloud check the user asked for has ended
CloudChecked == last.op = "cloud" /\ ~last.silent

\* C20: the check reports "unreachable" exactly when no catalogue was
\* fetched, "no differences" exactly when one was fetched and the diff is
\* empty, and "N differences" exactly when one was fetched and the diff has
\* N > 0 entries; a fetched empty catalogue is not reported as unreachable.
C20_CloudOutcomes ==
    CloudChecked =>
        LET n == IF last.fetched = None THEN 0
                 ELSE Len(calculate_cloud_diffs(last.fetched[1], db_data))
        IN  /\ (last.shown = "error") = (last.fetched = None)
            /\ (last.shown = "up_to_date") = (last.fetched # None /\ n = 0)
            /\ (last.shown = "updates") = (last.fetched # None /\ n > 0)
            /\ last.shown = "updates" => last.count = n

-----------------------------------------------------------------------------
(* Author inference.                                                       *)

\* the first folder under Dances on the way to the file, or the sentinel
\* for a file that lies in Dances itself
FirstFolder(p) == IF Len(p) = 1 THEN "Unknown" ELSE p[1]

\* C21: a scan gives a new entry, made from the one file with that content,
\* the author "Unknown" when the file lies directly in Dances and otherwise
\* the name of the first folder under Dances that contains it (A for
\* Dances/A/B/file, not B); the author of an entry the catalogue already had
\* is left as it was.
C21_AuthorFromFirstFolder ==
    AfterScan =>
        /\ \A h \in (DOMAIN last.ret_inv) \ (DOMAIN last.pre) :
              FilesOf(h) = {last.ret_inv[h]} =>
                  /\ h \in DOMAIN CatalogAfter
                  /\ CatalogAfter[h].author = Some(FirstFolder(last.ret_inv[h]))
        /\ \A h \in (DOMAIN last.pre) \cap (DOMAIN CatalogAfter) :
              CatalogAfter[h].author = last.pre[h].author

-----------------------------------------------------------------------------
(* The date of the last modification.                                      *)

\* name, author, credits and comment are what they were
SameFields(old, new) ==
    /\ old.name = new.name
    /\ SameAnnotations(old, new)

\* 'updated' is today's date when a field changed and is left alone when
\* none did
DateFollows(old, new) ==
    IF SameFields(old, new)
    THEN new.updated = old.updated
    ELSE new.updated = Some(today)

ScanDatesFollow ==
    AfterScan =>
        \A h \in (DOMAIN last.pre) \cap (DOMAIN CatalogAfter) :
            DateFollows(last.pre[h], CatalogAfter[h])

MergeDatesFollow ==
    AfterMerge =>
        \A h \in (DOMAIN last.pre) \cap (DOMAIN db_data) :
            DateFollows(last.pre[h], db_data[h])

\* C22: every operation on the catalogue (a scan, a merge of remote entries,
\* a save of the editor for one entry or for several) leaves the 'updated'
\* of an entry whose name, author, credits and comment it does not change
\* as it was, and sets the 'updated' of an entry of which it changes one of
\* them to today's date.  (The step that only advances the date is no
\* operation on the catalogue.)
C22_UpdatedTracksChanges ==
    [][ today' = today =>
          /\ ScanDatesFollow'
          /\ MergeDatesFollow'
          /\ last'.op = "edit" =>
                \A h \in last'.hashes : DateFollows(db_data[h], db_data'[h]) ]_vars

-----------------------------------------------------------------------------
(* The life of an entry.                                                   *)

\* the entry of h is in the catalogue in memory and in the catalogue file
Kept(h) ==
    /\ h \in DOMAIN db_data
    /\ db_file.state = "ok"
    /\ h \in DOMAIN db_file.data

\* this step applies the remote entry of h, of which there is no local file
MergesIn(h) ==
    /\ last'.op = "merge"
    /\ dialog.open
    /\ h \in last'.hashes
    /\ FilesOf(h) = {}

\* C23: applying one remote entry whose fingerprint has no local file puts
\* the entry into the catalogue in memory and on disk, and no later scan,
\* save, merge or reload takes an entry out of either.
C23_MergedEntryStays ==
    [][ \A h \in Hashes : (MergesIn(h) \/ Kept(h)) => Kept(h)' ]_vars

-----------------------------------------------------------------------------
(* Uploading the catalogue.  The POST raises (no route, timeout, and the   *)
(* HTTPError urllib raises for an error status), or it returns a response  *)
(* with a status.                                                          *)

\* UPLOAD_ENDPOINT of dance_manager.py
UPLOAD_ENDPOINT == "dance-uploader.xenophn.workers.dev"

\* the upload_url the backend is called with: none, or the endpoint
Endpoints == {"", UPLOAD_ENDPOINT}

\* the contributor name on_upload_click passes on, which is empty when the
\* name typed had no letter, digit, '-' or '_'
Usernames == {"", "tanito"}

UploadResponses ==
    {[kind |-> "raises", status |-> 0]}
        \cup {[kind |-> "status", status |-> s] : s \in {199, 200, 204, 299, 300, 404, 500}}

\* the payload json.dumps serialises
Payload(db, username) ==
    [username |-> username, timestamp |-> today, filename |-> "dances.json",
     content |-> db]

\* the upload with the test of the status written as 200 <= response.status
UploadAcceptsAnyStatus(db, username, upload_url, resp) ==
    IF upload_url = ""
    THEN [ok |-> FALSE, msg |-> "Upload URL is not configured", db |-> db, sent |-> None]
    ELSE LET sent == Some(Payload(db, username)) IN
         IF resp.kind = "raises"
         THEN [ok |-> FALSE, msg |-> "Upload error", db |-> db, sent |-> sent]
         ELSE IF 200 <= resp.status
         THEN [ok |-> TRUE, msg |-> "Upload successful!", db |-> db, sent |-> sent]
         ELSE [ok |-> FALSE, msg |-> "Server returned status", db |-> db, sent |-> sent]

\* upload_to_cloud(username, upload_url) on the catalogue db: the result
\* pair, the request body sent and self.db_data after the call
upload_to_cloud(db, username, upload_url, resp) ==
    IF upload_url = ""
    THEN [ok |-> FALSE, msg |-> "Upload URL is not configured", db |-> db, sent |-> None]
    ELSE LET sent == Some(Payload(db, username)) IN
         IF resp.kind = "raises"
         THEN [ok |-> FALSE, msg |-> "Upload error", db |-> db, sent |-> sent]
         ELSE IF 200 <= resp.status /\ resp.status < 300
         THEN [ok |-> TRUE, msg |-> "Upload successful!", db |-> db, sent |-> sent]
         ELSE [ok |-> FALSE, msg |-> "Server returned status", db |-> db, sent |-> sent]

InitUpload ==
    /\ fs = [exists |-> TRUE, files |-> NoFiles]
    /\ today = 1
    /\ db_file \in {MissingFile, Doc(<<"h1">>, [h \in {"h1"} |-> Annotated])}
    /\ db_data \in IoCatalogs
    /\ inventory = EmptyDict
    /\ dialog = ClosedDialog
    /\ net = NoFetch
    /\ bg = NoWorkers
    /\ app_inventory = EmptyDict
    /\ last = [op |-> "input"]

UploadToCloud(username, upload_url, resp) ==
    LET r == upload_to_cloud(db_data, username, upload_url, resp) IN
    /\ db_data' = r.db
    /\ last' = [op |-> "upload", url |-> upload_url, resp |-> resp,
                ok |-> r.ok, msg |-> r.msg, sent |-> r.sent]
    /\ UNCHANGED <<fs, today, db_file, inventory, dialog, app_inventory, net, bg>>

NextUpload ==
    \E username \in Usernames, upload_url \in Endpoints, resp \in UploadResponses :
        UploadToCloud(username, upload_url, resp)

SpecUpload == InitUpload /\ [][NextUpload]_vars

\* the POST was made and answered with a 2xx status
Answered2xx ==
    /\ last.url # ""
    /\ last.resp.kind = "status"
    /\ last.resp.status \in 200..299

\* C24: an upload leaves the catalogue in memory and the catalogue file as
\* they were, whatever its outcome; it returns success exactly when the
\* POST was answered with a 2xx status, and every other outcome (another
\* status, a transport error, no endpoint) is a failure with a reason.
C24_UploadPreserves ==
    [][ last'.op = "upload" =>
          /\ db_data' = db_data
          /\ db_file' = db_file
          /\ last'.ok = Answered2xx'
          /\ ~last'.ok => last'.msg # "" ]_vars

C24_Witness ==
    /\ last.op = "upload"
    /\ db_data # EmptyDict
    /\ last.sent # None /\ last.sent[1].content = db_data
    /\ last.resp.kind = "status" /\ last.resp.status = 300
    /\ ~last.ok

-----------------------------------------------------------------------------
(* Files that cannot be read.                                              *)

\* the files of this scan whose fingerprint was computed
ReadFiles == Present(fs) \ last.failed

ReadHashes == {Md5Hex8(fs.files[p]) : p \in ReadFiles}

\* C25: a scan in which the fingerprinting of some files fails runs to its
\* end all the same; the returned inventory holds exactly the fingerprints
\* that were computed, each with a file that was read, and each of them is
\* a key of the catalogue; a file that failed adds no key to either; and
\* the count of new entries is the number of computed fingerprints the
\* catalogue did not have.
C25_ScanSurvivesUnreadable ==
    /\ last.op # "scan_aborted"
    /\ (AfterScan /\ fs.exists) =>
          /\ DOMAIN last.ret_inv = ReadHashes
          /\ \A h \in DOMAIN last.ret_inv : last.ret_inv[h] \in ReadFiles
          /\ ReadHashes \subseteq DOMAIN CatalogAfter
          /\ (DOMAIN CatalogAfter) \ (DOMAIN last.pre) \subseteq ReadHashes
          /\ last.cnt = Cardinality(ReadHashes \ (DOMAIN last.pre))

-----------------------------------------------------------------------------
(* Loading a catalogue file that is missing or broken.                     *)

\* C26: a load from a catalogue file that is missing or does not parse
\* ends without an error and leaves the catalogue in memory empty, whatever
\* it held before; the loader of the older tool returns the empty
\* catalogue for such a file as well.
C26_LoadOfBadFileIsEmpty ==
    db_file.state # "ok" =>
        /\ last.op = "load" => db_data = EmptyDict
        /\ load_database(db_file) = EmptyDict

C26_Witness ==
    /\ last.op = "load"
    /\ db_file.state = "corrupt"
    /\ last.x # EmptyDict
    /\ db_data = EmptyDict

-----------------------------------------------------------------------------
(* Fingerprinting, read by read.  A digest object is fed the bytes of the  *)
(* file in the order they are read; what it returns depends on the bytes   *)
(* it was fed and on the algorithm.                                        *)

\* the length of a content in bytes: one that spans several reads of 4096
\* bytes, and one that fits in a single read
FileSize(c) ==
    CASE c = "c1" -> 5000
      [] c = "c2" -> 100

\* f.read(1024 * 1024) of dance_manager.py and dance_gui_manager.py
MD5_READ == 1048576

\* f.read(4096) of generate_json.py
SHA1_READ == 4096

\* the loop 'while chunk := f.read(n): h.update(chunk)': the number of
\* bytes of the content the digest object has been fed when read returns
\* nothing
RECURSIVE ReadAll(_, _, _)
ReadAll(c, n, fed) ==
    LET chunk == IF FileSize(c) - fed < n THEN FileSize(c) - fed ELSE n
    IN  IF chunk = 0 THEN fed ELSE ReadAll(c, n, fed + chunk)

\* hashlib.sha1(bytes).hexdigest()[:8]: another function of the bytes than
\* the MD5 prefix
Sha1Hex8(c) ==
    CASE c = "c1" -> "s1"
      [] c = "c2" -> "s2"

\* hexdigest()[:8] of a digest object fed the first 'fed' bytes of c
HexDigest8(alg, c, fed) ==
    IF fed # FileSize(c) THEN "prefix"
    ELSE IF alg = "md5" THEN Md5Hex8(c)
    ELSE Sha1Hex8(c)

\* generate_json.py, compute_sha1
compute_sha1(c) == HexDigest8("sha1", c, ReadAll(c, SHA1_READ, 0))

\* _compute_hash and file_hash on a file that can be read
md5_of_file(c) == HexDigest8("md5", c, ReadAll(c, MD5_READ, 0))

HashTools == {"dance_manager", "dance_gui_manager", "generate_json"}

\* the key under which the tool files the content in dances.json
Fingerprint(tool, c) ==
    IF tool = "generate_json" THEN compute_sha1(c) ELSE md5_of_file(c)

InitHash ==
    /\ fs \in {[exists |-> TRUE, files |-> f] : f \in [Paths -> Contents \cup {NoFile}]}
    /\ today = 1
    /\ db_file = MissingFile
    /\ db_data = EmptyDict
    /\ inventory = EmptyDict
    /\ dialog = ClosedDialog
    /\ net = NoFetch
    /\ bg = NoWorkers
    /\ app_inventory = EmptyDict
    /\ last = [op |-> "input"]

\* a tool fingerprints the file at p
FingerprintFile(tool, p) ==
    /\ fs.files[p] # NoFile
    /\ last' = [op |-> "hash", tool |-> tool, path |-> p,
                value |-> Fingerprint(tool, fs.files[p]),
                prev |-> IF last.op = "hash"
                         THEN Some([tool |-> last.tool, path |-> last.path,
                                    value |-> last.value])
                         ELSE None]
    /\ UNCHANGED <<fs, today, AppVars, net, bg>>

NextHash == \E tool \in HashTools, p \in Paths : FingerprintFile(tool, p)

SpecHash == InitHash /\ [][NextHash]_vars

\* two fingerprints were taken, of files with the same bytes
SameBytesTwice ==
    /\ last.op = "hash"
    /\ last.prev # None
    /\ fs.files[last.path] = fs.files[last.prev[1].path]

\* C27: two fingerprints of files with the same bytes are equal, whatever
\* the names and paths of the files, the size of the reads and the tool
\* that computed them.
C27_SameBytesSameFingerprint ==
    SameBytesTwice => last.value = last.prev[1].value

-----------------------------------------------------------------------------
(* Applying every difference.                                              *)

\* the remote catalogue of the session as a document fetched again (the
\* order of its keys does not change which entries differ)
RemoteAgain ==
    Doc(CHOOSE o \in Orderings(DOMAIN last.items) : TRUE, last.items)

DiffHashes(diffs) == {diffs[i][1] : i \in DOMAIN diffs}

\* the merge applied every difference there was, and the catalogue was saved
AllApplied ==
    /\ AfterMerge
    /\ last.save_ok
    /\ last.hashes = DiffHashes(calculate_cloud_diffs(RemoteAgain, last.pre))

\* C28: once every difference of a session has been applied and the
\* catalogue saved, the diff of the catalogue against the same remote
\* catalogue is empty, also for remote entries with an empty comment or
\* without 'updated'.
C28_ApplyConverges ==
    AllApplied => calculate_cloud_diffs(RemoteAgain, db_data) = <<>>

-----------------------------------------------------------------------------
(* Two collection roots.  The tool starts on the first; on_path_change     *)
(* points it at the second, whose Dances directory and catalogue file are  *)
(* then the ones self.dances_dir and self.db_file name.                    *)

\* Dances of the root the tool starts on
OldDances == [exists |-> TRUE, files |-> OneFile]

\* Dances and dances.json of the root it is pointed at
NewDances ==
    [exists |-> TRUE,
     files |-> [p \in Paths |-> IF p = <<"a.unity3d">> THEN NoFile ELSE "c2"]]

NewCatalog == Doc(<<"h3">>, [h \in {"h3"} |-> Annotated])

InitRoots ==
    /\ fs = OldDances
    /\ today = 1
    /\ db_file \in {MissingFile, Doc(<<"h1">>, [h \in {"h1"} |-> Annotated])}
    /\ db_data = EmptyDict
    /\ inventory = EmptyDict
    /\ dialog = ClosedDialog
    /\ net = NoFetch
    /\ bg = NoWorkers
    /\ app_inventory = EmptyDict
    /\ last = [op |-> "init"]

\* on_path_change with the path of the second root: set_root_path
\* (dances_dir, db_file, ensure_dirs, load_db), then refresh_scan, whether
\* or not a scan is under way
TSetRootPath ==
    /\ Started /\ CanStart
    /\ fs = OldDances
    /\ fs' = NewDances
    /\ db_file' = NewCatalog
    /\ db_data' = load_db(NewCatalog)
    /\ bg' = StartWorker(bg)
    /\ last' = [op |-> "path_change", scanning |-> Scanning]
    /\ UNCHANGED <<today, inventory, dialog, app_inventory, net>>

NextRoots ==
    \/ TRunStartupTasks
    \/ TRefreshScan
    \/ TSetRootPath
    \/ \E w \in Workers : WorkerStart(w)
    \/ \E w \in Workers, read_fails \in BOOLEAN : WorkerFile(w, read_fails)
    \/ \E w \in Workers : WorkerReturn(w)
    \/ TOnScanDone("ok")

SpecRoots == InitRoots /\ [][NextRoots]_vars

\* the tool is on the second root and no scan or callback is left
Settled ==
    /\ fs = NewDances
    /\ bg.workers = EmptyDict
    /\ bg.queue = <<>>

\* what the second root holds: the keys of its catalogue file as it was,
\* and the fingerprints of the files in its Dances
OfNewRoot == (DOMAIN NewCatalog.data) \cup HashesOnDisk

\* C29: once the tool is on the new root and every scan has ended,
\* including one that was under way for the old root, the catalogue in
\* memory and the catalogue file hold only entries of the new root's file
\* and of the files in its Dances, and the inventory only files of its
\* Dances.
C29_RootsIsolated ==
    Settled =>
        /\ DOMAIN db_data \subseteq OfNewRoot
        /\ db_file.state = "ok" /\ DOMAIN db_file.data \subseteq OfNewRoot
        /\ DOMAIN inventory \subseteq HashesOnDisk

-----------------------------------------------------------------------------
(* Selecting entries and saving the form as the tool filled it.            *)

\* populate_editor for one selected entry: the form as the user finds it
populate_editor(data) ==
    [name |-> StripSuffix(Get(data.name, "")),
     auth |-> Get(data.author, ""),
     cred |-> IF data.credits # None /\ data.credits[1] # <<>>
              THEN data.credits[1]
              ELSE <<"Motion:", "Camera:">>,
     cred_batch |-> FALSE,
     comm |-> Get(data.comment, ""),
     comm_batch |-> FALSE]

\* populate_editor for several selected entries
BatchForm ==
    [name |-> "(Multiple)", auth |-> "",
     cred |-> <<"Batch: Type to overwrite all.">>, cred_batch |-> TRUE,
     comm |-> "Batch: Type to overwrite all.", comm_batch |-> TRUE]

\* on_select of the entries hashes, then Save Changes with no key pressed
\* in between: save_local_changes reads back what populate_editor wrote
SaveUntouched(hashes, io) ==
    LET is_batch == Cardinality(hashes) > 1
        form == IF is_batch THEN BatchForm
                ELSE populate_editor(db_data[CHOOSE h \in hashes : TRUE])
        edited == [h \in DOMAIN db_data |->
                      IF h \in hashes THEN EditEntry(db_data[h], form, is_batch)
                      ELSE db_data[h]]
        r == save_db(edited, db_file, io)
    IN  /\ Started /\ ~dialog.open
        /\ hashes # {}
        /\ hashes \subseteq (DOMAIN db_data) \cap (DOMAIN inventory)
        /\ db_data' = r.db
        /\ db_file' = r.file
        /\ last' = [op |-> "edit", hashes |-> hashes,
                    day |-> today, saved |-> TRUE, save_ok |-> r.ok,
                    notice |-> Notice("info", "Saved")]
        /\ UNCHANGED <<fs, today, inventory, dialog, app_inventory, net, bg>>

InitSelect ==
    /\ fs = [exists |-> TRUE, files |-> TwoFiles]
    /\ today = 1
    /\ db_file \in InitFiles
    /\ db_data = EmptyDict
    /\ inventory = EmptyDict
    /\ dialog = ClosedDialog
    /\ net = NoFetch
    /\ bg = NoWorkers
    /\ app_inventory = EmptyDict
    /\ last = [op |-> "init"]

NextSelect ==
    \/ AdvanceDay
    \/ RunStartupTasks(ReliableWrites)
    \/ RefreshScan(ReliableWrites)
    \/ \E hashes \in SUBSET Hashes : SaveUntouched(hashes, "ok")

SpecSelect == InitSelect /\ [][NextSelect]_vars

\* C30: Save Changes on a selection whose form was not touched leaves the
\* data as it was: for one selected entry its name, author, credits,
\* comment and 'updated', also when its credits are empty; for several
\* selected entries the name, credits and comment of each.
C30_UntouchedSaveKeeps ==
    [][ last'.op = "edit" =>
          \A h \in last'.hashes :
              /\ db_data'[h].name = db_data[h].name
              /\ db_data'[h].credits = db_data[h].credits
              /\ Comment(db_data'[h]) = Comment(db_data[h])
              /\ Cardinality(last'.hashes) = 1 =>
                    /\ db_data'[h].author = db_data[h].author
                    /\ db_data'[h].updated = db_data[h].updated ]_vars

====
